---- MODULE Spec2Model ----
(***************************************************************************)
(* Model of the colour accessibility engine of color_palette.py: the hex   *)
(* converter, the luminance and contrast calculator, the accessibility     *)
(* evaluator, the accessible variant search and the palette generator.     *)
(*                                                                         *)
(* Hex colours are strings, read and written character by character, so    *)
(* that parsing and formatting are modelled by what they do.  The floats   *)
(* of the code are modelled by exact numbers: a channel is a fraction      *)
(* <<numerator, denominator>>, a lightness an integer in units of 1/1020,  *)
(* a luminance an integer in units of 1/50000000 (the gamma expansion is   *)
(* tabulated to that precision) and a contrast ratio the pair of its       *)
(* numerator and denominator.  Where a float can fall on the other side of *)
(* an integer than the exact number does, int() of it is a choice between  *)
(* the two outcomes (FloatsOf).                                            *)
(***************************************************************************)
EXTENDS Integers, Sequences, FiniteSets, TLC

VARIABLES
    app,        \* app.py: the state of the dashboard module, a record (NoApp: not loaded)
    charts,     \* app.py: the module-level list charts; charts[k].figure.data are the traces
    calls,      \* app.py: the invocations of update_charts in flight, one record each
    first,      \* a caller's local: what get_accessible_variant returned the first time
    tables,     \* the module's constant tables: palettes and scales, by name
    pc,         \* "call": the arguments are bound; "loop": inside the search loop; "done": returned
    op,         \* the function invoked
    arg,        \* its arguments, a record
    ret,        \* its outcome: Return(value), Raise(exception) or NoValue
    h,          \* get_accessible_variant: hue, in sixths of a turn, <<numerator, denominator>>
    l,          \* get_accessible_variant: lightness, in units of 1/LScale
    s,          \* get_accessible_variant: saturation, <<numerator, denominator>>
    bg_lum,     \* get_accessible_variant: luminance of the background
    i,          \* get_accessible_variant: index of the current iteration = candidates that failed
    new_color   \* get_accessible_variant: the candidate of the current iteration

vars == <<app, charts, calls, first, tables, pc, op, arg, ret, h, l, s, bg_lum, i, new_color>>

Return(v) == [kind |-> "return", val |-> v]
Raise(e) == [kind |-> "raise", val |-> e]
NoValue == [kind |-> "none", val |-> ""]

Min(a, b) == IF a <= b THEN a ELSE b
Max(a, b) == IF a >= b THEN a ELSE b

\* The element of a one-element set.  Only({e(x) : x \in {v}}) is e(v) with
\* x bound to the value of v, which is computed once: it stands for a local
\* variable of the code.
Only(S) == CHOOSE x \in S : TRUE

-----------------------------------------------------------------------------
(* Strings as Python sees them *)

\* s[k] for a 0-based index k inside the string
CharAt(str, k) == SubSeq(str, k + 1, k + 1)

\* s[a:b] with 0 <= a <= b: the slice is cut at the end of the string
Slice(str, a, b) == SubSeq(str, a + 1, Min(b, Len(str)))

\* str.lstrip('#'): every leading '#' is removed
RECURSIVE lstrip_hash(_)
lstrip_hash(str) ==
    IF Len(str) > 0 /\ Head(str) = "#" THEN lstrip_hash(Tail(str)) ELSE str

LowerDigits == "0123456789abcdef"
UpperDigits == "0123456789ABCDEF"

\* the value of each character int(text, 16) takes as a digit
HexDigitValue ==
    [ch \in {CharAt(LowerDigits, k) : k \in 0..15} \cup {CharAt(UpperDigits, k) : k \in 0..15} |->
        CHOOSE k \in 0..15 : CharAt(LowerDigits, k) = ch \/ CharAt(UpperDigits, k) = ch]

IsHexDigit(ch) == ch \in DOMAIN HexDigitValue

DigitValue(ch) == HexDigitValue[ch]

\* str.strip() as int() applies it, for the whitespace the inputs contain
\* and a text of at most two characters
strip(text) ==
    IF text = " " \/ text = "  " THEN ""
    ELSE IF Len(text) = 2 /\ CharAt(text, 0) = " " THEN CharAt(text, 1)
    ELSE IF Len(text) = 2 /\ CharAt(text, 1) = " " THEN CharAt(text, 0)
    ELSE text

\* int(text, 16) on the slices hex_to_rgb passes, which hold at most two
\* characters: surrounding whitespace is dropped, one sign is allowed, and
\* what remains must be one or two hex digits ("0x" alone, "_" and "" are
\* invalid literals).
int16(text) ==
    Only({
        IF Len(t) = 1 /\ IsHexDigit(t)
          THEN Return(DigitValue(t))
        ELSE IF Len(t) = 2 /\ IsHexDigit(CharAt(t, 0)) /\ IsHexDigit(CharAt(t, 1))
          THEN Return(16 * DigitValue(CharAt(t, 0)) + DigitValue(CharAt(t, 1)))
        ELSE IF Len(t) = 2 /\ CharAt(t, 0) = "+" /\ IsHexDigit(CharAt(t, 1))
          THEN Return(DigitValue(CharAt(t, 1)))
        ELSE IF Len(t) = 2 /\ CharAt(t, 0) = "-" /\ IsHexDigit(CharAt(t, 1))
          THEN Return(0 - DigitValue(CharAt(t, 1)))
        ELSE Raise("ValueError")
        : t \in {strip(text)}})

\* format(n, 'x') for n >= 0
RECURSIVE hex_digits(_)
hex_digits(n) ==
    IF n < 16 THEN CharAt(LowerDigits, n)
    ELSE hex_digits(n \div 16) \o CharAt(LowerDigits, n % 16)

format_x_unpadded(n) ==
    IF n < 0 THEN "-" \o hex_digits(0 - n) ELSE hex_digits(n)

\* '{:02x}'.format(n): zero padded to a width of two, the sign counted in the width
format_02x(n) ==
    IF n < 0 THEN "-" \o hex_digits(0 - n)
    ELSE IF n < 16 THEN "0" \o hex_digits(n)
    ELSE hex_digits(n)

\* int(x) for a number x = q[1] / q[2], q[2] > 0: truncation towards zero
int_trunc(q) ==
    IF q[1] >= 0 THEN q[1] \div q[2] ELSE 0 - ((0 - q[1]) \div q[2])

-----------------------------------------------------------------------------
(* Colour space converter *)

\* the generator converts the slices in order; the first that fails raises
hex_to_rgb(hex_color) ==
    Only({
        Only({
            IF r.kind = "raise" THEN r
            ELSE IF g.kind = "raise" THEN g
            ELSE IF b.kind = "raise" THEN b
            ELSE Return(<<r.val, g.val, b.val>>)
            : r \in {int16(Slice(stripped, 0, 2))},
              g \in {int16(Slice(stripped, 2, 4))},
              b \in {int16(Slice(stripped, 4, 6))}})
        : stripped \in {lstrip_hash(hex_color)}})

\* int(x) replaced by rounding half up
round_half_up(q) == (2 * q[1] + q[2]) \div (2 * q[2])

rgb_to_hex_rounding(rgb) ==
    "#" \o format_02x(round_half_up(rgb[1])) \o format_02x(round_half_up(rgb[2]))
        \o format_02x(round_half_up(rgb[3]))

\* rgb is a triple of numbers, each <<numerator, denominator>>
rgb_to_hex(rgb) ==
    "#" \o format_02x(int_trunc(rgb[1])) \o format_02x(int_trunc(rgb[2]))
        \o format_02x(int_trunc(rgb[3]))

\* the tuple of ints hex_to_rgb returns, as numbers
AsNumbers(t) == <<(<<t[1], 1>>), (<<t[2], 1>>), (<<t[3], 1>>)>>

-----------------------------------------------------------------------------
(* Constant tables *)

CATEGORICAL_PALETTE ==
    <<"#1e40af", "#059669", "#dc2626", "#7c3aed", "#ea580c", "#0891b2",
      "#be185d", "#16a34a", "#4f46e5", "#b45309", "#0369a1", "#9d174d">>

SEQUENTIAL_SCALES ==
    [blue |-> <<"#dbeafe", "#bfdbfe", "#93c5fd", "#60a5fa", "#3b82f6", "#2563eb", "#1d4ed8",
                "#1e40af", "#1e3a8a">>,
     green |-> <<"#d1fae5", "#a7f3d0", "#6ee7b7", "#34d399", "#10b981", "#059669", "#047857",
                 "#065f46", "#064e3b">>,
     red |-> <<"#fee2e2", "#fecaca", "#fca5a5", "#f87171", "#ef4444", "#dc2626", "#b91c1c",
               "#991b1b", "#7f1d1d">>,
     purple |-> <<"#ede9fe", "#ddd6fe", "#c4b5fd", "#a78bfa", "#8b5cf6", "#7c3aed", "#6d28d9",
                  "#5b21b6", "#4c1d95">>]

DIVERGING_SCALES ==
    [blue_red |-> <<"#1e40af", "#3b82f6", "#93c5fd", "#dbeafe", "#f8fafc", "#fee2e2",
                    "#fca5a5", "#ef4444", "#dc2626">>,
     green_purple |-> <<"#059669", "#10b981", "#6ee7b7", "#d1fae5", "#f8fafc", "#ede9fe",
                        "#c4b5fd", "#8b5cf6", "#7c3aed">>]

COLOR_PALETTE ==
    [primary |-> <<"#1e40af", "#3b82f6", "#6366f1", "#8b5cf6">>,
     secondary |-> <<"#059669", "#10b981", "#34d399", "#6ee7b7">>,
     accent |-> <<"#dc2626", "#ef4444", "#f87171", "#fca5a5">>,
     neutral |-> <<"#374151", "#6b7280", "#9ca3af", "#d1d5db">>]

CHART_THEME ==
    [background |-> "#ffffff", plot_bgcolor |-> "#ffffff", paper_bgcolor |-> "#ffffff",
     grid_color |-> "#f3f4f6", axis_color |-> "#d1d5db", text_color |-> "#374151",
     title_color |-> "#1f2937", subtitle_color |-> "#6b7280", legend_bgcolor |-> "#ffffff",
     legend_bordercolor |-> "#e5e7eb", tooltip_bgcolor |-> "#ffffff",
     tooltip_bordercolor |-> "#d1d5db"]

\* the tables as the module holds them once it is imported
Loaded ==
    tables = [COLOR_PALETTE |-> COLOR_PALETTE,
              CATEGORICAL_PALETTE |-> CATEGORICAL_PALETTE,
              SEQUENTIAL_SCALES |-> SEQUENTIAL_SCALES,
              DIVERGING_SCALES |-> DIVERGING_SCALES]

-----------------------------------------------------------------------------
(* Luminance and contrast.  A luminance is an integer in units of          *)
(* 1/LumScale; a contrast ratio is the pair <<lighter + 0.05, darker +     *)
(* 0.05>> of its numerator and denominator, in the same units.             *)

LumScale == 50000000

\* ((c/255 + 0.055) / 1.055) ** 2.4 for c = 0..255, rounded to units of 1/LumScale
GammaExpanded ==
    <<
       41690, 49184, 57409, 66386, 76132, 86666, 98004, 110163,
       123159, 137008, 151726, 167327, 183825, 201236, 219572, 238848,
       259076, 280270, 302442, 325605, 349771, 374952, 401160, 428406,
       456703, 486061, 516491, 548005, 580612, 614324, 649152, 685104,
       722192, 760426, 799815, 840369, 882098, 925011, 969118, 1014428,
       1060951, 1108694, 1157668, 1207882, 1259343, 1312061, 1366045, 1421302,
       1477842, 1535672, 1594802, 1655238, 1716990, 1780066, 1844473, 1910219,
       1977312, 2045760, 2115571, 2186751, 2259310, 2333254, 2408591, 2485328,
       2563473, 2643032, 2724014, 2806425, 2890272, 2975562, 3062303, 3150501,
       3240163, 3331297, 3423908, 3518005, 3613593, 3710678, 3809269, 3909371,
       4010991, 4114135, 4218811, 4325023, 4432779, 4542086, 4652948, 4765373,
       4879367, 4994936, 5112087, 5230824, 5351155, 5473086, 5596621, 5721769,
       5848533, 5976921, 6106939, 6238591, 6371884, 6506824, 6643416, 6781666,
       6921581, 7063165, 7206424, 7351363, 7497989, 7646308, 7796323, 7948042,
       8101469, 8256610, 8413470, 8572055, 8732370, 8894421, 9058212, 9223750,
       9391039, 9560084, 9730892, 9903466, 10077813, 10253937, 10431844, 10611538,
       10793025, 10976310, 11161398, 11348294, 11537002, 11727529, 11919879, 12114056,
       12310066, 12507914, 12707605, 12909143, 13112533, 13317780, 13524890, 13733866,
       13944713, 14157437, 14372042, 14588532, 14806914, 15027190, 15249366, 15473446,
       15699436, 15927339, 16157160, 16388905, 16622577, 16858181, 17095721, 17335203,
       17576630, 17820007, 18065339, 18312630, 18561884, 18813106, 19066301, 19321472,
       19578624, 19837762, 20098889, 20362011, 20627131, 20894254, 21163383, 21434525,
       21707682, 21982859, 22260060, 22539289, 22820551, 23103850, 23389190, 23676575,
       23966009, 24257497, 24551042, 24846650, 25144323, 25444066, 25745883, 26049779,
       26355756, 26663820, 26973974, 27286223, 27600570, 27917019, 28235575, 28556241,
       28879022, 29203921, 29530942, 29860089, 30191367, 30524779, 30860328, 31198020,
       31537857, 31879844, 32223984, 32570282, 32918741, 33269365, 33622158, 33977123,
       34334266, 34693588, 35055095, 35418789, 35784675, 36152756, 36523037, 36895520,
       37270210, 37647111, 38026225, 38407557, 38791111, 39176890, 39564897, 39955137,
       40347613, 40742329, 41139288, 41538494, 41939951, 42343662, 42749630, 43157861,
       43568356, 43981120, 44396156, 44813468, 45233059, 45654933, 46079093, 46505543,
       46934286, 47365327, 47798668, 48234312, 48672265, 49112528, 49555105, 50000000
    >>

\* x / 12.92 if x <= 0.03928 else ((x + 0.055) / 1.055) ** 2.4, for x = c/255.0
\* (c/255/12.92 = 5c/16473; the product with LumScale is split to stay in range)
srgb_to_linear(c) ==
    IF 100000 * c <= 3928 * 255
    THEN 5 * c * (LumScale \div 16473) + (5 * c * (LumScale % 16473)) \div 16473
    ELSE GammaExpanded[c + 1]

\* weight * x for a weight given in ten-thousandths (the product is split to stay in range)
Weighted(weight, x) == weight * (x \div 10000) + (weight * (x % 10000)) \div 10000

\* the linear channel of a 0..255 channel, bound once
Linear(c) == Only({srgb_to_linear(x) : x \in {c}})

get_luminance_wrong_weight(hex_color) ==
    Only({
        Weighted(2126, Linear(rgb[1])) + Weighted(7512, Linear(rgb[2]))
            + Weighted(722, Linear(rgb[3]))
        : rgb \in {hex_to_rgb(hex_color).val}})

get_luminance(hex_color) ==
    Only({
        Weighted(2126, Linear(rgb[1])) + Weighted(7152, Linear(rgb[2]))
            + Weighted(722, Linear(rgb[3]))
        : rgb \in {hex_to_rgb(hex_color).val}})

get_contrast_ratio_no_swap(color1, color2) ==
    Only({
        <<lum1 + LumScale \div 20, lum2 + LumScale \div 20>>
        : lum1 \in {get_luminance(color1)}, lum2 \in {get_luminance(color2)}})

get_contrast_ratio_swap_reversed(color1, color2) ==
    Only({
        IF lum1 > lum2
        THEN <<lum2 + LumScale \div 20, lum1 + LumScale \div 20>>
        ELSE <<lum1 + LumScale \div 20, lum2 + LumScale \div 20>>
        : lum1 \in {get_luminance(color1)}, lum2 \in {get_luminance(color2)}})

\* the lighter colour goes first
get_contrast_ratio(color1, color2) ==
    Only({
        IF lum1 < lum2
        THEN <<lum2 + LumScale \div 20, lum1 + LumScale \div 20>>
        ELSE <<lum1 + LumScale \div 20, lum2 + LumScale \div 20>>
        : lum1 \in {get_luminance(color1)}, lum2 \in {get_luminance(color2)}})

is_accessible_large_text(color, background, level) ==
    Only({
        IF level = "AA" THEN ratio[1] >= 3 * ratio[2]
        ELSE IF level = "AAA" THEN ratio[1] >= 7 * ratio[2]
        ELSE FALSE
        : ratio \in {get_contrast_ratio(color, background)}})

is_accessible_levels_swapped(color, background, level) ==
    Only({
        IF level = "AA" THEN ratio[1] >= 7 * ratio[2]
        ELSE IF level = "AAA" THEN 2 * ratio[1] >= 9 * ratio[2]
        ELSE FALSE
        : ratio \in {get_contrast_ratio(color, background)}})

is_accessible_default_allow(color, background, level) ==
    Only({
        IF level = "AA" THEN 2 * ratio[1] >= 9 * ratio[2]
        ELSE IF level = "AAA" THEN ratio[1] >= 7 * ratio[2]
        ELSE TRUE
        : ratio \in {get_contrast_ratio(color, background)}})

\* ratio >= 4.5 is 2 * numerator >= 9 * denominator
is_accessible(color, background, level) ==
    Only({
        IF level = "AA" THEN 2 * ratio[1] >= 9 * ratio[2]
        ELSE IF level = "AAA" THEN ratio[1] >= 7 * ratio[2]
        ELSE FALSE
        : ratio \in {get_contrast_ratio(color, background)}})

-----------------------------------------------------------------------------
(* Inputs of the converter *)

MaxHexLen == 7
FracDen == 4

InputAlphabet == {"#", "f", "g", "-"}

RECURSIVE StringsOfLen(_)
StringsOfLen(n) ==
    IF n = 0 THEN {""}
    ELSE {str \o ch : str \in StringsOfLen(n - 1), ch \in InputAlphabet}

DigitPairs == {"00", "0f", "1e", "40", "7F", "a0", "Af", "FF"}

SixDigitInputs ==
    {p \o a \o b \o c : p \in {"", "#"}, a \in DigitPairs, b \in DigitPairs, c \in DigitPairs}

OddInputs ==
    {"12345", "#12345", "1234567", "#1234567", "##ff00ff", "#fff", "fff",
     " f f f", "f f f ", "+f-f+f", "0x0x0x", "f_f_f_", "#12345g", "#GGGGGG",
     "#ff00f", "ff00ff#", "# ff00ff"}

HexInputs ==
    SixDigitInputs \cup OddInputs \cup UNION {StringsOfLen(n) : n \in 0..MaxHexLen}

ChannelSamples == {0 - 1, 0, 15, 16, 254, 255, 256}

NumberInputs == {<<FracDen * v + d, FracDen>> : v \in ChannelSamples, d \in 0..(FracDen - 1)}

RgbInputs == NumberInputs \X NumberInputs \X NumberInputs

-----------------------------------------------------------------------------
(* The converter's calls *)

\* the engine is called on its own: no dashboard, no call made before
NoApp == [x \in {} |-> x]
NoCaller == app = NoApp /\ charts = <<>> /\ calls = <<>> /\ first = NoValue

Idle ==
    /\ h = <<0, 1>> /\ l = 0 /\ s = <<0, 1>> /\ bg_lum = 0 /\ i = 0 /\ new_color = ""

InitConvert ==
    /\ pc = "call"
    /\ \/ op = "hex_to_rgb" /\ arg \in [hex_color : HexInputs]
       \/ op = "rgb_to_hex" /\ arg \in [rgb : RgbInputs]
    /\ ret = NoValue
    /\ Idle
    /\ Loaded
    /\ NoCaller

HexToRgb ==
    /\ pc = "call" /\ op = "hex_to_rgb"
    /\ ret' = hex_to_rgb(arg.hex_color)
    /\ pc' = "done"
    /\ UNCHANGED <<app, charts, calls, first, tables, op, arg, h, l, s, bg_lum, i, new_color>>

RgbToHex ==
    /\ pc = "call" /\ op = "rgb_to_hex"
    /\ ret' = Return(rgb_to_hex(arg.rgb))
    /\ pc' = "done"
    /\ UNCHANGED <<app, charts, calls, first, tables, op, arg, h, l, s, bg_lum, i, new_color>>

\* rgb_to_hex applied to the tuple a hex_to_rgb call returned
RgbToHexOfResult ==
    /\ pc = "done" /\ op = "hex_to_rgb" /\ ret.kind = "return"
    /\ ret' = Return(rgb_to_hex(AsNumbers(ret.val)))
    /\ op' = "rgb_to_hex(hex_to_rgb)"
    /\ UNCHANGED <<app, charts, calls, first, tables, pc, arg, h, l, s, bg_lum, i, new_color>>

NextConvert == HexToRgb \/ RgbToHex \/ RgbToHexOfResult

SpecConvert == InitConvert /\ [][NextConvert]_vars

-----------------------------------------------------------------------------
(* Properties of the converter *)

\* the string once one optional leading '#' is removed
StripOneHash(str) == IF Len(str) > 0 /\ Head(str) = "#" THEN Tail(str) ELSE str

AllHexDigits(str) == \A k \in 0..(Len(str) - 1) : IsHexDigit(CharAt(str, k))

\* exactly six hexadecimal digits after one optional leading '#'
ValidHex6(str) == Len(StripOneHash(str)) = 6 /\ AllHexDigits(StripOneHash(str))

\* a lowercase '#rrggbb' string of seven characters
WellFormedHex(str) ==
    /\ Len(str) = 7
    /\ Head(str) = "#"
    /\ \A k \in 1..6 : \E d \in 0..15 : CharAt(str, k) = CharAt(LowerDigits, d)

RECURSIVE Lower(_)
Lower(str) ==
    IF Len(str) = 0 THEN ""
    ELSE (IF IsHexDigit(Head(str)) THEN CharAt(LowerDigits, DigitValue(Head(str)))
          ELSE Head(str)) \o Lower(Tail(str))

Clamp255(n) == Max(0, Min(255, n))

\* the integers nearest to the number q (two of them on a tie)
Nearest(q) == {k \in (int_trunc(q) - 1)..(int_trunc(q) + 1) :
                  2 * (q[1] - k * q[2]) <= q[2] /\ 2 * (k * q[2] - q[1]) <= q[2]}

\* every channel truncates into 0..255
InByteRange(rgb) == \A k \in 1..3 : rgb[k][1] > 0 - rgb[k][2] /\ rgb[k][1] < 256 * rgb[k][2]

\* C3: hex_to_rgb raises an error for every input that is not exactly six
\* hexadecimal digits after one optional leading '#' is stripped; no such
\* input is accepted or truncated.
C3_InvalidHexRaises ==
    (pc = "done" /\ op = "hex_to_rgb" /\ ~ValidHex6(arg.hex_color))
        => ret.kind = "raise"

\* C4 as stated: for every numeric triple rgb_to_hex gives a well-formed
\* '#rrggbb' string whose channels are the inputs rounded to the nearest
\* integer and clamped to [0, 255].
C4_RoundsAndClamps ==
    (pc = "done" /\ op = "rgb_to_hex")
        => /\ WellFormedHex(ret.val)
           /\ \E r \in Nearest(arg.rgb[1]), g \in Nearest(arg.rgb[2]), b \in Nearest(arg.rgb[3]) :
                  hex_to_rgb(ret.val) = Return(<<Clamp255(r), Clamp255(g), Clamp255(b)>>)

\* C4 amended: rgb_to_hex truncates each channel towards zero and does not
\* clamp; for every triple whose channels lie strictly between -1 and 256
\* the result is a well-formed lowercase '#rrggbb' string whose digit pairs
\* are the truncated channels.
C4_TruncatesInRange ==
    (pc = "done" /\ op = "rgb_to_hex" /\ InByteRange(arg.rgb))
        => /\ WellFormedHex(ret.val)
           /\ hex_to_rgb(ret.val) =
                  Return(<<int_trunc(arg.rgb[1]), int_trunc(arg.rgb[2]), int_trunc(arg.rgb[3])>>)

\* a call with a red channel just below 255, which rounding would take to
\* 255, and a green channel between -1 and 0
C4_Witness ==
    /\ pc = "done" /\ op = "rgb_to_hex" /\ InByteRange(arg.rgb)
    /\ arg.rgb[1] = <<255 * FracDen - 1, FracDen>>
    /\ arg.rgb[2][1] < 0
    /\ ret.val = "#fe0000"

\* C5: for every valid six-digit hex colour c, with or without the leading
\* '#', rgb_to_hex(hex_to_rgb(c)) is c in lowercase with the '#' prefix.
C5_HexRoundTrip ==
    (pc = "done" /\ op = "rgb_to_hex(hex_to_rgb)" /\ ValidHex6(arg.hex_color))
        => ret = Return("#" \o Lower(StripOneHash(arg.hex_color)))

\* a round trip of an uppercase colour given without '#', with a leading zero digit
C5_Witness ==
    /\ pc = "done" /\ op = "rgb_to_hex(hex_to_rgb)"
    /\ arg.hex_color = "0fAf7F"
    /\ ret = Return("#0faf7f")

-----------------------------------------------------------------------------
(* Inputs of the contrast calculator and of the variant search *)

ChannelLevels == 4

GridChannels == {(k * 255) \div (ChannelLevels - 1) : k \in 0..(ChannelLevels - 1)}

GridColors ==
    {rgb_to_hex(<<(<<r, 1>>), (<<g, 1>>), (<<b, 1>>)>>) :
        r \in GridChannels, g \in GridChannels, b \in GridChannels}

ThemeColors ==
    {CHART_THEME.background, CHART_THEME.grid_color, CHART_THEME.axis_color,
     CHART_THEME.text_color, CHART_THEME.title_color, CHART_THEME.subtitle_color,
     CHART_THEME.legend_bordercolor}

Colors ==
    GridColors \cup {CATEGORICAL_PALETTE[k] : k \in 1..Len(CATEGORICAL_PALETTE)} \cup ThemeColors

Levels == {"AA", "AAA", "A"}

-----------------------------------------------------------------------------
(* The calculator's and the evaluator's calls *)

InitContrast ==
    /\ pc = "call"
    /\ \/ op = "get_luminance" /\ arg \in [hex_color : Colors]
       \/ op = "get_contrast_ratio" /\ arg \in [color1 : Colors, color2 : Colors]
       \/ op = "is_accessible" /\ arg \in [color : Colors, background : Colors, level : Levels]
    /\ ret = NoValue
    /\ Idle
    /\ Loaded
    /\ NoCaller

GetLuminance ==
    /\ pc = "call" /\ op = "get_luminance"
    /\ ret' = Return(get_luminance(arg.hex_color))
    /\ pc' = "done"
    /\ UNCHANGED <<app, charts, calls, first, tables, op, arg, h, l, s, bg_lum, i, new_color>>

GetContrastRatio ==
    /\ pc = "call" /\ op = "get_contrast_ratio"
    /\ ret' = Return(get_contrast_ratio(arg.color1, arg.color2))
    /\ pc' = "done"
    /\ UNCHANGED <<app, charts, calls, first, tables, op, arg, h, l, s, bg_lum, i, new_color>>

IsAccessible ==
    /\ pc = "call" /\ op = "is_accessible"
    /\ ret' = Return(is_accessible(arg.color, arg.background, arg.level))
    /\ pc' = "done"
    /\ UNCHANGED <<app, charts, calls, first, tables, op, arg, h, l, s, bg_lum, i, new_color>>

NextContrast == GetLuminance \/ GetContrastRatio \/ IsAccessible

SpecContrast == InitContrast /\ [][NextContrast]_vars

-----------------------------------------------------------------------------
(* Hue, lightness, saturation.  A channel c of 0..255 stands for the float *)
(* c/255.0.  Lightness is an integer in units of 1/LScale; saturation is   *)
(* a fraction <<numerator, denominator>>; hue is kept in sixths of a turn, *)
(* h * 6 = numerator / denominator.                                        *)

LScale == 1020

\* colorsys.rgb_to_hls(r/255.0, g/255.0, b/255.0)
rgb_to_hls(rgb) ==
    LET maxc == Max(rgb[1], Max(rgb[2], rgb[3]))
        minc == Min(rgb[1], Min(rgb[2], rgb[3]))
        sumc == maxc + minc
        rangec == maxc - minc
        hue == IF rgb[1] = maxc THEN rgb[2] - rgb[3]
               ELSE IF rgb[2] = maxc THEN 2 * rangec + rgb[3] - rgb[1]
               ELSE 4 * rangec + rgb[1] - rgb[2]
    IN  IF minc = maxc
        THEN [h |-> <<0, 1>>, l |-> 2 * sumc, s |-> <<0, 1>>]
        ELSE [h |-> <<hue % (6 * rangec), rangec>>,
              l |-> 2 * sumc,
              s |-> IF 2 * sumc <= LScale \div 2 THEN <<rangec, sumc>>
                    ELSE <<rangec, 510 - sumc>>]

\* colorsys._v(m1, m2, hue) * 255, for m1 = m1n / (LScale * sd), m2 = m2n / (LScale * sd)
\* and hue * 6 = hn / hd: the numerator of the result over 4 * sd * hd
v_numerator(m1n, m2n, hn, hd) ==
    LET hue == hn % (6 * hd)
    IN  IF hue < hd THEN m1n * hd + (m2n - m1n) * hue
        ELSE IF hue < 3 * hd THEN m2n * hd
        ELSE IF hue < 4 * hd THEN m1n * hd + (m2n - m1n) * (4 * hd - hue)
        ELSE m1n * hd

\* colorsys.hls_to_rgb(h, l, s) with each channel multiplied by 255, as exact numbers
hls_to_rgb_255(hh, ll, ss) ==
    LET m2n == IF ll <= LScale \div 2 THEN ll * (ss[2] + ss[1])
               ELSE ll * ss[2] + LScale * ss[1] - ll * ss[1]
        m1n == 2 * ll * ss[2] - m2n
        den == 4 * ss[2] * hh[2]
    IN  IF ss[1] = 0
        THEN <<(<<ll, 4>>), (<<ll, 4>>), (<<ll, 4>>)>>
        ELSE <<(<<v_numerator(m1n, m2n, hh[1] + 2 * hh[2], hh[2]), den>>),
               (<<v_numerator(m1n, m2n, hh[1], hh[2]), den>>),
               (<<v_numerator(m1n, m2n, hh[1] + 4 * hh[2], hh[2]), den>>)>>

\* The floats the code computes differ from the exact numbers by rounding
\* errors far smaller than the gap between two distinct exact values, so
\* int() of a float can differ from int() of the exact number only where
\* the exact number is an integer n >= 1, which the float may fall just
\* short of: the float is then n or a number just below n.
FloatsOf(q) ==
    IF q[1] % q[2] = 0 /\ q[1] >= q[2] THEN {q, <<q[1] - 1, q[2]>>} ELSE {q}

\* the triples of floats a triple of exact numbers may be computed as; a
\* grey (the three channels are one and the same float) stays a grey
FloatTriples(rgb, grey) ==
    IF grey THEN {<<q, q, q>> : q \in FloatsOf(rgb[1])}
    ELSE FloatsOf(rgb[1]) \X FloatsOf(rgb[2]) \X FloatsOf(rgb[3])

-----------------------------------------------------------------------------
(* Accessible variant search *)

step == 51
max_steps == 10

Backgrounds ==
    {rgb_to_hex(<<(<<c, 1>>), (<<c, 1>>), (<<c, 1>>)>>) : c \in GridChannels}
        \cup ThemeColors \cup {CATEGORICAL_PALETTE[1], CATEGORICAL_PALETTE[3]}

Init ==
    /\ pc = "call"
    /\ op = "get_accessible_variant"
    /\ arg \in [color : Colors, background : Backgrounds, level : Levels]
    /\ ret = NoValue
    /\ Idle
    /\ Loaded
    /\ NoCaller

Enter_no_fast_path ==
    /\ pc = "call" /\ op = "get_accessible_variant"
    /\ \E hls \in {rgb_to_hls(hex_to_rgb(arg.color).val)} :
          /\ h' = hls.h /\ l' = hls.l /\ s' = hls.s
          /\ bg_lum' = get_luminance(arg.background)
          /\ pc' = "loop"
    /\ UNCHANGED <<app, charts, calls, first, tables, op, arg, ret, i, new_color>>

\* rgb_to_hls unpacked as h, s, l: lightness and saturation in each other's place
Enter_hsl_unpacked ==
    /\ pc = "call" /\ op = "get_accessible_variant"
    /\ IF is_accessible(arg.color, arg.background, arg.level)
       THEN /\ ret' = Return(arg.color)
            /\ pc' = "done"
            /\ UNCHANGED <<h, l, s, bg_lum>>
       ELSE \E hls \in {rgb_to_hls(hex_to_rgb(arg.color).val)} :
                /\ h' = hls.h
                /\ l' = (hls.s[1] * LScale) \div hls.s[2]
                /\ s' = <<hls.l \div 2, LScale \div 2>>
                /\ bg_lum' = get_luminance(arg.background)
                /\ pc' = "loop"
                /\ UNCHANGED ret
    /\ UNCHANGED <<app, charts, calls, first, tables, op, arg, i, new_color>>

\* a level that is not known lets the input through
Enter_unknown_level_passes ==
    /\ pc = "call" /\ op = "get_accessible_variant"
    /\ IF arg.level \notin {"AA", "AAA"}
          \/ is_accessible(arg.color, arg.background, arg.level)
       THEN /\ ret' = Return(arg.color)
            /\ pc' = "done"
            /\ UNCHANGED <<h, l, s, bg_lum>>
       ELSE \E hls \in {rgb_to_hls(hex_to_rgb(arg.color).val)} :
                /\ h' = hls.h /\ l' = hls.l /\ s' = hls.s
                /\ bg_lum' = get_luminance(arg.background)
                /\ pc' = "loop"
                /\ UNCHANGED ret
    /\ UNCHANGED <<app, charts, calls, first, tables, op, arg, i, new_color>>

\* lines 113-121: the fast path, or the conversion to HLS and the background's luminance
Enter ==
    /\ pc = "call" /\ op = "get_accessible_variant"
    /\ IF is_accessible(arg.color, arg.background, arg.level)
       THEN /\ ret' = Return(arg.color)
            /\ pc' = "done"
            /\ UNCHANGED <<h, l, s, bg_lum>>
       ELSE \E hls \in {rgb_to_hls(hex_to_rgb(arg.color).val)} :
                /\ h' = hls.h /\ l' = hls.l /\ s' = hls.s
                /\ bg_lum' = get_luminance(arg.background)
                /\ pc' = "loop"
                /\ UNCHANGED ret
    /\ UNCHANGED <<app, charts, calls, first, tables, op, arg, i, new_color>>

\* the loop written with 'while True' and no count of its iterations
Iteration_uncounted(new_l) ==
    \E rgb \in FloatTriples(hls_to_rgb_255(h, new_l, s), s[1] = 0) :
        \E candidate \in {rgb_to_hex(rgb)} :
            /\ l' = new_l
            /\ new_color' = candidate
            /\ IF is_accessible(candidate, arg.background, arg.level)
               THEN ret' = Return(candidate) /\ pc' = "done"
               ELSE UNCHANGED <<pc, ret>>
            /\ UNCHANGED <<app, charts, calls, first, tables, op, arg, h, s, bg_lum, i>>

\* a loop that returns a candidate only when the one before it passed as well
Iteration_second_passing(new_l) ==
    \E rgb \in FloatTriples(hls_to_rgb_255(h, new_l, s), s[1] = 0) :
        \E candidate \in {rgb_to_hex(rgb)} :
            /\ l' = new_l
            /\ new_color' = candidate
            /\ IF /\ is_accessible(candidate, arg.background, arg.level)
                  /\ new_color # ""
                  /\ is_accessible(new_color, arg.background, arg.level)
               THEN ret' = Return(candidate) /\ pc' = "done" /\ i' = i
               ELSE i' = i + 1 /\ UNCHANGED <<pc, ret>>
            /\ UNCHANGED <<app, charts, calls, first, tables, op, arg, h, s, bg_lum>>

\* one iteration of a search loop with the lightness moved to new_l
Iteration(new_l) ==
    \E rgb \in FloatTriples(hls_to_rgb_255(h, new_l, s), s[1] = 0) :
        \E candidate \in {rgb_to_hex(rgb)} :
            /\ l' = new_l
            /\ new_color' = candidate
            /\ IF is_accessible(candidate, arg.background, arg.level)
               THEN ret' = Return(candidate) /\ pc' = "done" /\ i' = i
               ELSE i' = i + 1 /\ UNCHANGED <<pc, ret>>
            /\ UNCHANGED <<app, charts, calls, first, tables, op, arg, h, s, bg_lum>>

\* the darkening loop taken when the colour itself is light
Darken_lightness_decides ==
    /\ pc = "loop" /\ 2 * l > LScale /\ i < max_steps
    /\ Iteration(Max(0, l - step))

\* lines 123-131: light background, darken the colour
Darken ==
    /\ pc = "loop" /\ 2 * bg_lum > LumScale /\ i < max_steps
    /\ Iteration(Max(0, l - step))

\* lines 132-140: dark background, lighten the colour
Lighten ==
    /\ pc = "loop" /\ ~(2 * bg_lum > LumScale) /\ i < max_steps
    /\ Iteration(Min(LScale, l + step))

Fallback_colours_swapped ==
    /\ pc = "loop" /\ i = max_steps
    /\ ret' = Return(IF 2 * bg_lum > LumScale THEN "#ffffff" ELSE "#000000")
    /\ pc' = "done"
    /\ UNCHANGED <<app, charts, calls, first, tables, op, arg, h, l, s, bg_lum, i, new_color>>

Fallback_inside_loop ==
    /\ pc = "loop" /\ i >= 1
    /\ ret' = Return(IF 2 * bg_lum > LumScale THEN "#000000" ELSE "#ffffff")
    /\ pc' = "done"
    /\ UNCHANGED <<app, charts, calls, first, tables, op, arg, h, l, s, bg_lum, i, new_color>>

\* the last candidate returned when no candidate passed
Fallback_last_candidate ==
    /\ pc = "loop" /\ i = max_steps
    /\ ret' = Return(new_color)
    /\ pc' = "done"
    /\ UNCHANGED <<app, charts, calls, first, tables, op, arg, h, l, s, bg_lum, i, new_color>>

\* line 143: no variant was found
Fallback ==
    /\ pc = "loop" /\ i = max_steps
    /\ ret' = Return(IF 2 * bg_lum > LumScale THEN "#000000" ELSE "#ffffff")
    /\ pc' = "done"
    /\ UNCHANGED <<app, charts, calls, first, tables, op, arg, h, l, s, bg_lum, i, new_color>>

Next == Enter \/ Darken \/ Lighten \/ Fallback

Spec == Init /\ [][Next]_vars

\* the colours the dashboard draws with: the categorical palette and the theme
DashboardColors ==
    {CATEGORICAL_PALETTE[k] : k \in 1..Len(CATEGORICAL_PALETTE)} \cup ThemeColors

\* the calls made with the dashboard's colours
InitDashboard == Init /\ arg.color \in DashboardColors

\* a call that has started runs on: the interpreter does not stop a thread
\* that can take a step
FairSpec == InitDashboard /\ [][Next]_vars /\ WF_vars(Next)

\* a caller passes the colour returned back in, with the same background and
\* level: first = get_accessible_variant(color, background, level), then
\* get_accessible_variant(first, background, level)
Again ==
    /\ pc = "done" /\ op = "get_accessible_variant" /\ first = NoValue
    /\ first' = ret
    /\ arg' = [arg EXCEPT !.color = ret.val]
    /\ ret' = NoValue
    /\ pc' = "call"
    /\ h' = <<0, 1>> /\ l' = 0 /\ s' = <<0, 1>> /\ bg_lum' = 0 /\ i' = 0 /\ new_color' = ""
    /\ UNCHANGED <<app, charts, calls, tables, op>>

NextTwice == Enter \/ Darken \/ Lighten \/ Fallback \/ Again

\* the calls, each followed by a second call on its result
SpecTwice == Init /\ [][NextTwice]_vars

-----------------------------------------------------------------------------
(* Palette generator.  A list of colours is a sequence of strings.  Where  *)
(* an interpolated channel is an integer as an exact number, the float the *)
(* code computes may fall just short of it, so interpolate_colors and      *)
(* get_chart_colors give the set of the lists the call may return.         *)

\* str.startswith(prefix)
startswith(str, prefix) ==
    Len(str) >= Len(prefix) /\ SubSeq(str, 1, Len(prefix)) = prefix

\* str.find(ch, start): the first 0-based index from start on where ch is, or -1
find(str, ch, start) ==
    IF \E k \in start..(Len(str) - 1) : CharAt(str, k) = ch
    THEN CHOOSE k \in start..(Len(str) - 1) :
             CharAt(str, k) = ch /\ \A j \in start..(k - 1) : CharAt(str, j) # ch
    ELSE 0 - 1

\* str.split('_', 1)[1] for a str that holds a '_': what follows the first '_'
split_once_1(str) ==
    Only({Slice(str, p1 + 1, Len(str)) : p1 \in {find(str, "_", 0)}})

\* str.split('_')[1] for a str that holds a '_': what lies between the first
\* '_' and the second, or the end of the string
split_1(str) ==
    Only({
        Only({
            Slice(str, p1 + 1, IF p2 < 0 THEN Len(str) ELSE p2)
            : p2 \in {find(str, "_", p1 + 1)}})
        : p1 \in {find(str, "_", 0)}})

\* the palette cut at num_colors instead of cycled
categorical_colors_no_cycle(num_colors) ==
    [k \in 1..Min(num_colors, Len(tables.CATEGORICAL_PALETTE)) |->
        tables.CATEGORICAL_PALETTE[k]]

\* [CATEGORICAL_PALETTE[i % len(CATEGORICAL_PALETTE)] for i in range(num_colors)]
categorical_colors(num_colors) ==
    [k \in 1..num_colors |->
        tables.CATEGORICAL_PALETTE[((k - 1) % Len(tables.CATEGORICAL_PALETTE)) + 1]]

\* int(x) replaced by round(x)
indices_rounded(scale, num_colors) ==
    [k \in 1..num_colors |->
        IF num_colors > 1
        THEN round_half_up(<<(k - 1) * (Len(scale) - 1), num_colors - 1>>)
        ELSE 0]

\* [int(i * (len(scale) - 1) / (num_colors - 1)) if num_colors > 1 else 0
\*  for i in range(num_colors)]
indices(scale, num_colors) ==
    [k \in 1..num_colors |->
        IF num_colors > 1
        THEN int_trunc(<<(k - 1) * (Len(scale) - 1), num_colors - 1>>)
        ELSE 0]

\* [scale[i] for i in indices]
select_evenly(scale, num_colors) ==
    Only({[k \in 1..num_colors |-> scale[picked[k] + 1]]
          : picked \in {indices(scale, num_colors)}})

\* segments taken as num_colors instead of num_colors - 1
position_one_segment_more(color_scale, num_colors, iter) ==
    Only({
        [idx1 |-> int_trunc(pos),
         idx2 |-> Min(int_trunc(pos) + 1, Len(color_scale) - 1),
         factor |-> <<pos[1] - int_trunc(pos) * pos[2], pos[2]>>]
        : pos \in {<<iter * (Len(color_scale) - 1), num_colors>>}})

\* pos, idx1, idx2 and factor of iteration iter of interpolate_colors; pos and
\* factor are exact numbers <<numerator, denominator>>
position(color_scale, num_colors, iter) ==
    Only({
        [idx1 |-> int_trunc(pos),
         idx2 |-> Min(int_trunc(pos) + 1, Len(color_scale) - 1),
         factor |-> <<pos[1] - int_trunc(pos) * pos[2], pos[2]>>]
        : pos \in {<<iter * (Len(color_scale) - 1), num_colors - 1>>}})

\* the weights of the two anchors exchanged
mix_weights_exchanged(c1, c2, factor) ==
    <<c2 * factor[2] + factor[1] * (c1 - c2), factor[2]>>

\* c1 + factor * (c2 - c1) as an exact number
mix(c1, c2, factor) == <<c1 * factor[2] + factor[1] * (c2 - c1), factor[2]>>

\* the floats c1 + factor * (c2 - c1) may be computed as: factor * 0 is 0 and
\* adds nothing to c1
mixed_floats(c1, c2, factor) ==
    IF c1 = c2 THEN {<<c1 * factor[2], factor[2]>>} ELSE FloatsOf(mix(c1, c2, factor))

\* the triples (r, g, b) of floats: channels computed from the same two
\* values are the same float
mixed_triples(rgb1, rgb2, factor) ==
    {rgb \in mixed_floats(rgb1[1], rgb2[1], factor) \X mixed_floats(rgb1[2], rgb2[2], factor)
                \X mixed_floats(rgb1[3], rgb2[3], factor) :
        \A j \in 1..3, k \in 1..3 :
            (rgb1[j] = rgb1[k] /\ rgb2[j] = rgb2[k]) => rgb[j] = rgb[k]}

\* the colours iteration iter of interpolate_colors may append
interpolated(color_scale, num_colors, iter) ==
    UNION {
        IF at.factor[1] = 0
        THEN {color_scale[at.idx1 + 1]}
        ELSE UNION {
                 {rgb_to_hex(rgb) : rgb \in mixed_triples(rgb1, rgb2, at.factor)}
                 : rgb1 \in {hex_to_rgb(color_scale[at.idx1 + 1]).val},
                   rgb2 \in {hex_to_rgb(color_scale[at.idx2 + 1]).val}}
        : at \in {position(color_scale, num_colors, iter)}}

\* the lists result may be after the first n iterations of the loop
RECURSIVE result_after(_, _, _)
result_after(color_scale, num_colors, n) ==
    IF n = 0 THEN {<<>>}
    ELSE {Append(result, color) :
             result \in result_after(color_scale, num_colors, n - 1),
             color \in interpolated(color_scale, num_colors, n - 1)}

\* the loop run over range(segments) instead of range(num_colors)
interpolate_colors_one_short(color_scale, num_colors) ==
    IF num_colors <= 1 THEN {<<color_scale[1]>>}
    ELSE result_after(color_scale, num_colors, num_colors - 1)

interpolate_colors(color_scale, num_colors) ==
    IF num_colors <= 1 THEN {<<color_scale[1]>>}
    ELSE result_after(color_scale, num_colors, num_colors)

\* the branch of a registered scale, sequential or diverging
from_scale(scale, num_colors) ==
    IF num_colors <= Len(scale) THEN {select_evenly(scale, num_colors)}
    ELSE interpolate_colors(scale, num_colors)

get_chart_colors(num_colors, palette_type) ==
    IF palette_type = "categorical"
      THEN {categorical_colors(num_colors)}
    ELSE IF startswith(palette_type, "sequential_")
              /\ split_1(palette_type) \in DOMAIN tables.SEQUENTIAL_SCALES
      THEN from_scale(tables.SEQUENTIAL_SCALES[split_1(palette_type)], num_colors)
    ELSE IF ~startswith(palette_type, "sequential_")
              /\ startswith(palette_type, "diverging_")
              /\ split_once_1(palette_type) \in DOMAIN tables.DIVERGING_SCALES
      THEN from_scale(tables.DIVERGING_SCALES[split_once_1(palette_type)], num_colors)
    ELSE {categorical_colors(num_colors)}

-----------------------------------------------------------------------------
(* Inputs of the palette generator *)

MaxCount == 14

Registered ==
    {"sequential_blue", "sequential_green", "sequential_red", "sequential_purple",
     "diverging_blue_red", "diverging_green_purple"}

Unregistered ==
    {"", "rainbow", "Categorical", "sequential", "diverging", "sequential_", "diverging_",
     "sequential_teal", "diverging_red_blue", "diverging_blue", "sequential__blue",
     "sequential_blue_red", "sequential_blue_", "sequential_green_purple",
     "diverging_blue_red_", "diverging_sequential_blue"}

PaletteTypes == {"categorical"} \cup Registered \cup Unregistered

Scales ==
    {SEQUENTIAL_SCALES[name] : name \in DOMAIN SEQUENTIAL_SCALES}
        \cup {DIVERGING_SCALES[name] : name \in DOMAIN DIVERGING_SCALES}
        \cup {<<"#1e40af">>, <<"#000000", "#ffffff">>, <<"#dc2626", "#1e40af", "#059669">>}

-----------------------------------------------------------------------------
(* The palette generator's calls, one after the other *)

NoCall == [x \in {} |-> x]

InitPalette ==
    /\ pc = "idle"
    /\ op = ""
    /\ arg = NoCall
    /\ ret = NoValue
    /\ Idle
    /\ Loaded
    /\ NoCaller

\* a caller invokes one of the two functions
Call ==
    /\ pc = "idle"
    /\ \/ op' = "get_chart_colors"
          /\ arg' \in [num_colors : 0..MaxCount, palette_type : PaletteTypes]
       \/ op' = "interpolate_colors"
          /\ arg' \in [color_scale : Scales, num_colors : 0..MaxCount]
    /\ pc' = "call"
    /\ UNCHANGED <<app, charts, calls, first, tables, ret, h, l, s, bg_lum, i, new_color>>

\* the categorical list built by appending to CATEGORICAL_PALETTE itself
GetChartColors_extends_palette ==
    /\ pc = "call" /\ op = "get_chart_colors"
    /\ \E result \in get_chart_colors(arg.num_colors, arg.palette_type) :
           /\ ret' = Return(result)
           /\ tables' = IF Len(result) > Len(tables.CATEGORICAL_PALETTE)
                           /\ result[1] = tables.CATEGORICAL_PALETTE[1]
                        THEN [tables EXCEPT !.CATEGORICAL_PALETTE = result]
                        ELSE tables
    /\ pc' = "done"
    /\ UNCHANGED <<app, charts, calls, first, op, arg, h, l, s, bg_lum, i, new_color>>

GetChartColors ==
    /\ pc = "call" /\ op = "get_chart_colors"
    /\ \E result \in get_chart_colors(arg.num_colors, arg.palette_type) :
           ret' = Return(result)
    /\ pc' = "done"
    /\ UNCHANGED <<app, charts, calls, first, tables, op, arg, h, l, s, bg_lum, i, new_color>>

InterpolateColors ==
    /\ pc = "call" /\ op = "interpolate_colors"
    /\ \E result \in interpolate_colors(arg.color_scale, arg.num_colors) :
           ret' = Return(result)
    /\ pc' = "done"
    /\ UNCHANGED <<app, charts, calls, first, tables, op, arg, h, l, s, bg_lum, i, new_color>>

\* the caller is done with the list
Finish ==
    /\ pc = "done"
    /\ pc' = "idle"
    /\ op' = ""
    /\ arg' = NoCall
    /\ ret' = NoValue
    /\ UNCHANGED <<app, charts, calls, first, tables, h, l, s, bg_lum, i, new_color>>

NextPalette == Call \/ GetChartColors \/ InterpolateColors \/ Finish

SpecPalette == InitPalette /\ [][NextPalette]_vars

-----------------------------------------------------------------------------
(* The dashboard, app.py.  Python's None is the empty tuple and a value v   *)
(* that may be None is <<v>>.  A date is a string, "today" the day the      *)
(* module is run.  A dict whose keys vary is the set of its items.          *)

None == <<>>
Some(v) == <<v>>

\* the colours the search loop may return from iteration k on, the lightness
\* being lightness after k iterations
RECURSIVE search(_, _, _, _, _, _)
search(hue, lightness, sat, background, level, k) ==
    IF k = max_steps
    THEN {IF 2 * get_luminance(background) > LumScale THEN "#000000" ELSE "#ffffff"}
    ELSE UNION {
             UNION {
                 IF is_accessible(candidate, background, level)
                 THEN {candidate}
                 ELSE search(hue, new_l, sat, background, level, k + 1)
                 : candidate \in {rgb_to_hex(rgb) :
                                     rgb \in FloatTriples(hls_to_rgb_255(hue, new_l, sat),
                                                          sat[1] = 0)}}
             : new_l \in {IF 2 * get_luminance(background) > LumScale
                          THEN Max(0, lightness - step)
                          ELSE Min(LScale, lightness + step)}}

\* get_accessible_variant as a function: the colours a call may return
get_accessible_variant(color, background, level) ==
    IF is_accessible(color, background, level) THEN {color}
    ELSE UNION {search(hls.h, hls.l, hls.s, background, level, 0)
                : hls \in {rgb_to_hls(hex_to_rgb(color).val)}}

\* line 465 and len(charts_data), lines 467-533
ChartCount == 8

\* line 465
chart_colors == Only({categorical_colors(ChartCount)})

\* lines 467-533: of each chart, the colour
charts_data == [k \in 1..ChartCount |-> [color |-> chart_colors[k]]]

\* the options of the four dropdowns, lines 869-907
Divisions == <<"Retail", "Enterprise", "SMB">>
Regions == <<"North America", "Europe", "Asia", "Other">>
ProductLines == <<"Hardware", "Software", "Services">>
Markets == <<"Consumer", "Business", "Government">>

\* lines 935-939
filter_store ==
    [date_range |-> [start |-> "2023-01-01", end |-> "2023-04-10"],
     categories |-> {},
     value_range |-> <<0, 1000>>]

\* the widgets as the layout creates them: filters.py lines 22-31, 72, 116
LayoutWidgets ==
    [start_date |-> "today-90", end_date |-> "today",
     division |-> Some(Divisions), region |-> Some(Regions),
     product_line |-> Some(ProductLines), market |-> Some(Markets),
     value_range |-> <<0, 1000>>]

\* the callbacks in the order the module defines them
Callbacks ==
    <<"update_filter_store", "reset_filters", "update_active_filters",
      "update_charts", "update_range_values">>

\* lines 1071-1084: the categories that are not None
categories_of(division, region, product_line, market) ==
    {<<item[1], item[2][1]>> :
        item \in {pair \in {<<"division", division>>, <<"region", region>>,
                            <<"product_line", product_line>>, <<"market", market>>} :
                     pair[2] # None}}

\* the store written on every invocation, clicked or not
update_filter_store_without_test(n_clicks, start_date, end_date, division, region, product_line, market, value_range, current_data) ==
    [(IF current_data = None THEN filter_store ELSE current_data[1])
        EXCEPT !.date_range = [start |-> start_date, end |-> end_date],
               !.categories = categories_of(division, region, product_line, market),
               !.value_range = value_range]

\* lines 1060-1090
update_filter_store(n_clicks, start_date, end_date, division, region, product_line, market, value_range, current_data) ==
    IF n_clicks # None
    THEN [(IF current_data = None THEN filter_store ELSE current_data[1])
             EXCEPT !.date_range = [start |-> start_date, end |-> end_date],
                    !.categories = categories_of(division, region, product_line, market),
                    !.value_range = value_range]
    ELSE IF current_data = None THEN filter_store ELSE current_data[1]

\* lines 1106-1122
reset_filters(n_clicks) ==
    IF n_clicks = None THEN Raise("PreventUpdate")
    ELSE Return([start_date |-> "today-100", end_date |-> "today",
                 division |-> Some(Divisions), region |-> Some(Regions),
                 product_line |-> Some(ProductLines), market |-> Some(Markets),
                 value_range |-> <<0, 1000>>])

\* the clicks a button has had: n_clicks is None until the first
MaxClicks == 2
clicks(n_clicks) == IF n_clicks = None THEN 0 ELSE n_clicks[1]

\* the values a user may give a widget
Choices ==
    [start_date |-> {"today-90", "2024-06-01"},
     division |-> {None, Some(Divisions)},
     region |-> {None, Some(Regions)},
     product_line |-> {None, Some(ProductLines)},
     market |-> {None, Some(Markets)},
     value_range |-> {<<0, 1000>>, <<200, 800>>}]

\* no call of the engine is in progress
EngineIdle == pc = "idle" /\ op = "" /\ arg = NoCall /\ ret = NoValue /\ first = NoValue /\ Idle

\* app.py run from its first line to line 533: as the main program or as a
\* module a server imports
InitApp ==
    /\ Loaded
    /\ EngineIdle
    /\ charts = <<>> /\ calls = <<>>
    /\ \E main \in BOOLEAN :
           app = [main |-> main, at |-> "adjust", chart |-> 1,
                  charts_data |-> charts_data,
                  callbacks |-> <<>>, serving |-> FALSE, loaded |-> FALSE,
                  widgets |-> LayoutWidgets,
                  n_clicks |-> [apply |-> None, reset |-> None],
                  store |-> filter_store]

\* the loop whose variant is computed and dropped
AdjustColor_variant_dropped ==
    /\ app.at = "adjust" /\ app.chart <= ChartCount
    /\ \E color \in get_accessible_variant(app.charts_data[app.chart].color,
                                           CHART_THEME.background, "AA") :
           app' = [app EXCEPT !.chart = @ + 1]
    /\ UNCHANGED <<charts, calls, first, tables, pc, op, arg, ret, h, l, s, bg_lum, i, new_color>>

\* lines 535-539: one iteration of the loop over charts_data
AdjustColor ==
    /\ app.at = "adjust" /\ app.chart <= ChartCount
    /\ \E chart \in {app.charts_data[app.chart]} :
           IF ~is_accessible(chart.color, CHART_THEME.background, "AA")
           THEN \E color \in get_accessible_variant(chart.color, CHART_THEME.background, "AA") :
                    app' = [app EXCEPT !.charts_data[app.chart].color = color,
                                       !.chart = @ + 1]
           ELSE app' = [app EXCEPT !.chart = @ + 1]
    /\ UNCHANGED <<charts, calls, first, tables, pc, op, arg, ret, h, l, s, bg_lum, i, new_color>>

\* lines 541-1043: the layout is built, then app.run() serves when the
\* module is the main program; app.run returns when the server is stopped
MainGuard ==
    /\ app.at = "adjust" /\ app.chart = ChartCount + 1
    /\ app' = IF app.main
              THEN [app EXCEPT !.at = "run", !.serving = TRUE]
              ELSE [app EXCEPT !.at = "callbacks"]
    /\ UNCHANGED <<charts, calls, first, tables, pc, op, arg, ret, h, l, s, bg_lum, i, new_color>>

\* the server started by app.run is stopped and app.run returns
StopServer ==
    /\ app.at = "run" /\ app.serving
    /\ app' = [app EXCEPT !.at = "callbacks", !.serving = FALSE, !.loaded = FALSE]
    /\ UNCHANGED <<charts, calls, first, tables, pc, op, arg, ret, h, l, s, bg_lum, i, new_color>>

\* lines 1046-1322: the next @app.callback registers its function; past the
\* last one the module has run to its end
Register ==
    /\ app.at = "callbacks"
    /\ \E registered \in {Append(app.callbacks, Callbacks[Len(app.callbacks) + 1])} :
           app' = [app EXCEPT !.callbacks = registered,
                              !.at = IF Len(registered) < Len(Callbacks) THEN "callbacks"
                                     ELSE IF app.main THEN "exit" ELSE "imported"]
    /\ UNCHANGED <<charts, calls, first, tables, pc, op, arg, ret, h, l, s, bg_lum, i, new_color>>

\* line 410: the server that imported the module serves app.server
Serve ==
    /\ app.at = "imported" /\ ~app.serving
    /\ app' = [app EXCEPT !.serving = TRUE]
    /\ UNCHANGED <<charts, calls, first, tables, pc, op, arg, ret, h, l, s, bg_lum, i, new_color>>

IsRegistered(callback) == \E k \in 1..Len(app.callbacks) : app.callbacks[k] = callback

\* update_filter_store invoked with the widgets' values and the store's data
StoreAfter(n_clicks) ==
    update_filter_store(n_clicks, app.widgets.start_date, app.widgets.end_date,
                        app.widgets.division, app.widgets.region,
                        app.widgets.product_line, app.widgets.market,
                        app.widgets.value_range, Some(app.store))

\* a browser loads the page: the callbacks without prevent_initial_call are
\* invoked once, update_filter_store with n_clicks None
PageLoad ==
    /\ app.serving /\ ~app.loaded
    /\ app' = [app EXCEPT !.loaded = TRUE,
                          !.store = IF IsRegistered("update_filter_store")
                                    THEN StoreAfter(app.n_clicks.apply) ELSE @]
    /\ UNCHANGED <<charts, calls, first, tables, pc, op, arg, ret, h, l, s, bg_lum, i, new_color>>

\* the user changes the value of a widget
Edit ==
    /\ app.serving /\ app.loaded
    /\ \E widget \in DOMAIN Choices :
           \E value \in Choices[widget] :
               /\ app.widgets[widget] # value
               /\ app' = [app EXCEPT !.widgets[widget] = value]
    /\ UNCHANGED <<charts, calls, first, tables, pc, op, arg, ret, h, l, s, bg_lum, i, new_color>>

\* the user clicks Apply: lines 1046-1090 run if the callback is registered
ClickApply ==
    /\ app.serving /\ app.loaded /\ clicks(app.n_clicks.apply) < MaxClicks
    /\ \E n_clicks \in {Some(clicks(app.n_clicks.apply) + 1)} :
           app' = [app EXCEPT !.n_clicks.apply = n_clicks,
                              !.store = IF IsRegistered("update_filter_store")
                                        THEN StoreAfter(n_clicks) ELSE @]
    /\ UNCHANGED <<charts, calls, first, tables, pc, op, arg, ret, h, l, s, bg_lum, i, new_color>>

\* the user clicks Reset: lines 1093-1122 run if the callback is registered
ClickReset ==
    /\ app.serving /\ app.loaded /\ clicks(app.n_clicks.reset) < MaxClicks
    /\ \E n_clicks \in {Some(clicks(app.n_clicks.reset) + 1)} :
           app' = [app EXCEPT !.n_clicks.reset = n_clicks,
                              !.widgets = IF IsRegistered("reset_filters")
                                          THEN reset_filters(n_clicks).val ELSE @]
    /\ UNCHANGED <<charts, calls, first, tables, pc, op, arg, ret, h, l, s, bg_lum, i, new_color>>

NextApp ==
    \/ AdjustColor \/ MainGuard \/ StopServer \/ Register \/ Serve
    \/ PageLoad \/ Edit \/ ClickApply \/ ClickReset

SpecApp == InitApp /\ [][NextApp]_vars

-----------------------------------------------------------------------------
(* update_charts, invoked by requests that the server handles side by side. *)
(* charts[k].figure is one object for all invocations.  Its attribute data  *)
(* is a property of the figure class, which is not part of the repository:  *)
(* its setter either takes the list assigned or refuses traces the figure   *)
(* does not hold already with ValueError.  Both are modelled: validates     *)
(* tells which class the figures are of.                                    *)

\* the traces of chart k generated from filter_data (None: the traces the
\* module builds at lines 542-739)
Traces(k, filter_data) == [chart |-> k, filter_data |-> filter_data]

\* invocations handled at the same time
Invocations == 2

\* the store's data an invocation may be given: none, the initial data, the
\* data after Apply was clicked on the untouched widgets
FilterData ==
    {None, Some(filter_store),
     Some(update_filter_store(Some(1), LayoutWidgets.start_date, LayoutWidgets.end_date,
                              LayoutWidgets.division, LayoutWidgets.region,
                              LayoutWidgets.product_line, LayoutWidgets.market,
                              LayoutWidgets.value_range, Some(filter_store)))}

\* charts_data after the loop of lines 535-539
adjusted_charts_data ==
    [k \in 1..ChartCount |->
        [color |-> IF is_accessible(chart_colors[k], CHART_THEME.background, "AA")
                   THEN chart_colors[k]
                   ELSE Only(get_accessible_variant(chart_colors[k],
                                                    CHART_THEME.background, "AA"))]]

\* the module imported and served, the page loaded, and update_charts
\* invoked by Invocations requests
InitCharts ==
    /\ Loaded
    /\ EngineIdle
    /\ app = [main |-> FALSE, at |-> "imported", chart |-> ChartCount + 1,
              charts_data |-> adjusted_charts_data,
              callbacks |-> Callbacks, serving |-> TRUE, loaded |-> TRUE,
              widgets |-> LayoutWidgets,
              n_clicks |-> [apply |-> None, reset |-> None],
              store |-> filter_store]
    /\ \E validates \in BOOLEAN :
           charts = [k \in 1..ChartCount |->
                        [figure |-> [data |-> Traces(k, None), validates |-> validates]]]
    /\ calls \in [1..Invocations ->
                    [filter_data : FilterData, pc : {"call"}, i : {1},
                     updated_figures : {<<>>}, ret : {NoValue}]]

\* what a list of figures holds when it is returned
FiguresOf(figures) == [k \in 1..Len(figures) |-> charts[figures[k]].figure.data]

\* lines 1186-1196: without filter data the figures of charts are returned
UpdateChartsEnter(t) ==
    /\ calls[t].pc = "call"
    /\ calls' = IF calls[t].filter_data = None
                THEN [calls EXCEPT ![t].pc = "done",
                                   ![t].ret = Return(FiguresOf([k \in 1..ChartCount |-> k]))]
                ELSE [calls EXCEPT ![t].pc = "loop"]
    /\ UNCHANGED <<app, charts, first, tables, pc, op, arg, ret, h, l, s, bg_lum, i, new_color>>

\* lines 1197-1307: one iteration of the loop, fig = charts[i].figure and
\* fig.data = [area_trace, trace]
UpdateChartsIteration(t) ==
    /\ calls[t].pc = "loop" /\ calls[t].i <= ChartCount
    /\ IF charts[calls[t].i].figure.validates
       THEN /\ calls' = [calls EXCEPT ![t].pc = "done", ![t].ret = Raise("ValueError")]
            /\ UNCHANGED charts
       ELSE /\ charts' = [charts EXCEPT ![calls[t].i].figure.data =
                                            Traces(calls[t].i, calls[t].filter_data)]
            /\ calls' = [calls EXCEPT ![t].updated_figures = Append(@, calls[t].i),
                                      ![t].i = @ + 1]
    /\ UNCHANGED <<app, first, tables, pc, op, arg, ret, h, l, s, bg_lum, i, new_color>>

\* line 1309: return updated_figures
UpdateChartsReturn(t) ==
    /\ calls[t].pc = "loop" /\ calls[t].i = ChartCount + 1
    /\ calls' = [calls EXCEPT ![t].pc = "done",
                              ![t].ret = Return(FiguresOf(calls[t].updated_figures))]
    /\ UNCHANGED <<app, charts, first, tables, pc, op, arg, ret, h, l, s, bg_lum, i, new_color>>

NextCharts ==
    \E t \in 1..Invocations :
        UpdateChartsEnter(t) \/ UpdateChartsIteration(t) \/ UpdateChartsReturn(t)

SpecCharts == InitCharts /\ [][NextCharts]_vars

-----------------------------------------------------------------------------
(* Properties of the calculator and of the evaluator *)

\* threshold(level) as <<numerator, denominator>>: 4.5 for AA, 7.0 for AAA
Threshold(level) == IF level = "AA" THEN <<9, 2>> ELSE <<7, 1>>

\* ratio >= t for a ratio and a threshold given as fractions
AtLeast(ratio, t) == ratio[1] * t[2] >= ratio[2] * t[1]

\* C6: get_contrast_ratio(a, b) = get_contrast_ratio(b, a) for all colours.
C6_ContrastSymmetric ==
    (pc = "done" /\ op = "get_contrast_ratio")
        => ret.val = get_contrast_ratio(arg.color2, arg.color1)

\* a ratio computed with the darker colour given first
C6_Witness ==
    /\ pc = "done" /\ op = "get_contrast_ratio"
    /\ get_luminance(arg.color1) < get_luminance(arg.color2)
    /\ ret.val[1] > ret.val[2]

\* C7: the contrast ratio is at least 1, and it is 1 exactly when the two
\* colours have the same relative luminance, as when a colour is compared
\* with itself.
C7_ContrastAtLeastOne ==
    (pc = "done" /\ op = "get_contrast_ratio")
        => /\ ret.val[1] >= ret.val[2]
           /\ ret.val[2] > 0
           /\ (ret.val[1] = ret.val[2])
                  <=> (get_luminance(arg.color1) = get_luminance(arg.color2))
           /\ (arg.color1 = arg.color2) => ret.val[1] = ret.val[2]

\* a ratio of exactly 1 between a colour and itself, and one above 1 with the
\* lighter colour given second
C7_Witness ==
    /\ pc = "done" /\ op = "get_contrast_ratio"
    /\ \/ arg.color1 = arg.color2 /\ arg.color1 = "#1e40af" /\ ret.val[1] = ret.val[2]
       \/ get_luminance(arg.color1) < get_luminance(arg.color2) /\ ret.val[1] > 2 * ret.val[2]

\* C8: the contrast of black against white is 21, and no pair exceeds it.
C8_ContrastAtMost21 ==
    (pc = "done" /\ op = "get_contrast_ratio")
        => /\ ret.val[1] <= 21 * ret.val[2]
           /\ ({arg.color1, arg.color2} = {"#000000", "#ffffff"})
                  => ret.val[1] = 21 * ret.val[2]

\* the ratio of black against white
C8_Witness ==
    /\ pc = "done" /\ op = "get_contrast_ratio"
    /\ arg.color1 = "#000000" /\ arg.color2 = "#ffffff"
    /\ ret.val = <<21 * (LumScale \div 20), LumScale \div 20>>

\* C9: is_accessible is true exactly when the contrast ratio is at least the
\* threshold of the level, 4.5 for AA and 7.0 for AAA.
C9_AccessibleIffThreshold ==
    (pc = "done" /\ op = "is_accessible" /\ arg.level \in {"AA", "AAA"})
        => (ret.val <=> AtLeast(get_contrast_ratio(arg.color, arg.background),
                                Threshold(arg.level)))

\* a pair that passes AA with a ratio below 7
C9_Witness ==
    /\ pc = "done" /\ op = "is_accessible" /\ arg.level = "AA" /\ ret.val
    /\ ~AtLeast(get_contrast_ratio(arg.color, arg.background), <<7, 1>>)

\* C10: a pair that is accessible at AAA is accessible at AA.
C10_AAAImpliesAA ==
    (pc = "done" /\ op = "is_accessible" /\ arg.level = "AAA" /\ ret.val)
        => is_accessible(arg.color, arg.background, "AA")

\* a pair that passes AAA
C10_Witness ==
    /\ pc = "done" /\ op = "is_accessible" /\ arg.level = "AAA" /\ ret.val
    /\ arg.color = "#1e40af" /\ arg.background = "#ffffff"

\* C11: for every level other than 'AA' and 'AAA' and every pair of colours
\* is_accessible returns false and raises no error, even when the contrast
\* ratio is the maximum, 21.
C11_UnknownLevelDenied ==
    (pc = "done" /\ op = "is_accessible" /\ arg.level \notin {"AA", "AAA"})
        => ret = Return(FALSE)

\* black on white, the maximum ratio, denied at a level that does not exist
C11_Witness ==
    /\ pc = "done" /\ op = "is_accessible"
    /\ arg = [color |-> "#000000", background |-> "#ffffff", level |-> "A"]
    /\ get_contrast_ratio(arg.color, arg.background)[1]
           = 21 * get_contrast_ratio(arg.color, arg.background)[2]
    /\ ret = Return(FALSE)

-----------------------------------------------------------------------------
(* Properties of the variant search *)

\* C1: get_accessible_variant returns a colour that is accessible against the
\* background at the level, or the fallback '#000000' or '#ffffff' after
\* ten lightness steps none of which gave an accessible candidate.
C1_AccessibleOrFallback ==
    (pc = "done" /\ op = "get_accessible_variant")
        => \/ is_accessible(ret.val, arg.background, arg.level)
           \/ /\ ret.val \in {"#000000", "#ffffff"}
              /\ i = max_steps
              /\ ~is_accessible(new_color, arg.background, arg.level)

\* a candidate returned by the search after earlier candidates failed
C1_Witness ==
    /\ pc = "done" /\ op = "get_accessible_variant" /\ arg.level = "AA"
    /\ i >= 2 /\ i < max_steps
    /\ ret.val = new_color /\ ret.val # arg.color
    /\ is_accessible(ret.val, arg.background, arg.level)

\* C2: when the input colour is already accessible it is returned unchanged
\* and no search step is performed.
C2_FastPath ==
    (pc = "done" /\ op = "get_accessible_variant"
        /\ is_accessible(arg.color, arg.background, arg.level))
        => ret = Return(arg.color) /\ i = 0 /\ new_color = "" /\ l = 0

\* the primary blue, accessible on white, returned as given
C2_Witness ==
    /\ pc = "done" /\ op = "get_accessible_variant"
    /\ arg = [color |-> "#1e40af", background |-> "#ffffff", level |-> "AAA"]
    /\ ret = Return("#1e40af")

\* the candidates evaluated so far: those that failed and the one returned
Evaluated == IF pc = "done" /\ i < max_steps /\ new_color # "" THEN i + 1 ELSE i

\* C17: every call of get_accessible_variant returns, after it has
\* evaluated at most ten candidates.
C17_Terminates ==
    [](Evaluated <= max_steps) /\ <>(pc = "done")

\* a call that evaluated ten candidates and returned
C17_Witness ==
    /\ pc = "done" /\ op = "get_accessible_variant"
    /\ Evaluated = max_steps
    /\ ret.kind = "return"

\* hue, lightness and saturation of a hex colour, as rgb_to_hls reads them
HlsOf(color) == rgb_to_hls(hex_to_rgb(color).val)

\* two fractions are the same number
SameNumber(p, q) == p[1] * q[2] = q[1] * p[2]

\* the first candidate was returned, and int() reads its channels the same
\* from the floats as from the exact numbers
FirstCandidateExact ==
    /\ i = 0 /\ ret.val = new_color
    /\ Cardinality(FloatTriples(hls_to_rgb_255(h, l, s), s[1] = 0)) = 1

\* C18 as stated: every colour get_accessible_variant returns that differs
\* from the input has exactly the hue and the saturation of the input, also
\* when the lightness was clamped and when the fallback is returned.  It is
\* stated here of the calls that return their first candidate, computed
\* without a rounding doubt.
C18_HueSaturationExact ==
    (pc = "done" /\ op = "get_accessible_variant" /\ ret.val # arg.color
        /\ FirstCandidateExact)
        => /\ SameNumber(HlsOf(ret.val).h, HlsOf(arg.color).h)
           /\ SameNumber(HlsOf(ret.val).s, HlsOf(arg.color).s)

\* C18 amended: every candidate the search evaluates, and so every colour
\* returned that is neither the input nor the fallback, is the 8-bit colour
\* rgb_to_hex gives for hls_to_rgb(h, l, s), where h and s are exactly the
\* hue and the saturation of the input and only l has moved.
C18_CandidatesKeepHueSaturation ==
    (op = "get_accessible_variant" /\ new_color # "")
        => /\ h = HlsOf(arg.color).h
           /\ s = HlsOf(arg.color).s
           /\ new_color \in {rgb_to_hex(rgb) :
                                rgb \in FloatTriples(hls_to_rgb_255(HlsOf(arg.color).h, l,
                                                                    HlsOf(arg.color).s),
                                                     HlsOf(arg.color).s[1] = 0)}
           /\ (pc = "done" /\ i < max_steps) => ret.val = new_color

\* the primary blue lightened for a black background: the colour returned
\* reads back with another hue than the input has
C18_Witness ==
    /\ pc = "done" /\ op = "get_accessible_variant"
    /\ arg = [color |-> "#1e40af", background |-> "#000000", level |-> "AA"]
    /\ ret = Return("#5173e1")
    /\ l = HlsOf(arg.color).l + 4 * step
    /\ ~SameNumber(HlsOf(ret.val).h, HlsOf(arg.color).h)

\* C19: the fallback is returned only when the input is not accessible and
\* none of the ten candidates was, and it is '#000000' when the luminance
\* of the background is above 0.5 and '#ffffff' otherwise.
C19_FallbackRule ==
    [][/\ (i' = i + 1) => ~is_accessible(new_color', arg.background, arg.level)
       /\ Fallback =>
              /\ i = max_steps
              /\ ~is_accessible(arg.color, arg.background, arg.level)
              /\ ~is_accessible(new_color, arg.background, arg.level)
              /\ ret' = Return(IF 2 * get_luminance(arg.background) > LumScale
                               THEN "#000000" ELSE "#ffffff")]_vars

\* white returned for a background that is not light, at a level that exists
C19_Witness ==
    /\ pc = "done" /\ op = "get_accessible_variant" /\ arg.level \in {"AA", "AAA"}
    /\ i = max_steps
    /\ 2 * get_luminance(arg.background) <= LumScale
    /\ ret = Return("#ffffff")
    /\ new_color # "#ffffff"

\* C21: the direction of the search is fixed by the background alone: when
\* the luminance of the background is above 0.5 every iteration moves the
\* lightness to max(0, l - 0.05) and never up, otherwise to min(1, l + 0.05)
\* and never down; the lightness stays within [0, 1].
C21_DirectionFixed ==
    [][(pc = "loop" /\ i < max_steps) =>
          /\ l' \in 0..LScale
          /\ IF 2 * get_luminance(arg.background) > LumScale
             THEN l' = Max(0, l - step) /\ l' <= l
             ELSE l' = Min(LScale, l + step) /\ l' >= l]_vars

\* a light background, and a lightness that was less than one step above 0
\* and was clamped to 0
C21_Witness ==
    /\ pc = "loop" /\ op = "get_accessible_variant"
    /\ 2 * get_luminance(arg.background) > LumScale
    /\ HlsOf(arg.color).l > step /\ HlsOf(arg.color).l % step # 0
    /\ i >= 2 /\ l = 0

\* the lightness of the candidate of iteration k of a call, from its arguments
LightnessAt(k) ==
    IF 2 * get_luminance(arg.background) > LumScale
    THEN Max(0, HlsOf(arg.color).l - k * step)
    ELSE Min(LScale, HlsOf(arg.color).l + k * step)

\* the colours iteration k of a call may produce, from its arguments
CandidatesAt(k) ==
    {rgb_to_hex(rgb) :
        rgb \in FloatTriples(hls_to_rgb_255(HlsOf(arg.color).h, LightnessAt(k),
                                            HlsOf(arg.color).s),
                             HlsOf(arg.color).s[1] = 0)}

\* C22: the candidate returned is the first one that passes: when the
\* candidate of iteration k is returned, the candidates of the iterations
\* 1..k-1 were not accessible.
C22_FirstPassingReturned ==
    (pc = "done" /\ op = "get_accessible_variant" /\ new_color # "" /\ i < max_steps)
        => /\ ret.val = new_color
           /\ new_color \in CandidatesAt(i + 1)
           /\ is_accessible(new_color, arg.background, arg.level)
           /\ \A k \in 1..i :
                  \E c \in CandidatesAt(k) :
                      ~is_accessible(c, arg.background, arg.level)

\* the orange of the palette on white: the first candidate fails, the second
\* is returned
C22_Witness ==
    /\ pc = "done" /\ op = "get_accessible_variant"
    /\ arg = [color |-> "#ea580c", background |-> "#ffffff", level |-> "AA"]
    /\ i = 1
    /\ ~is_accessible("#d14e0a", arg.background, arg.level)
    /\ "#d14e0a" \in CandidatesAt(1)
    /\ ret = Return("#b94509")

\* C24: on a background whose luminance is above 0.5, at the levels AA and
\* AAA, the colour get_accessible_variant returns is accessible whatever the
\* input colour is: black, the fallback there, has a contrast of at least 11.
C24_AccessibleOnLightBackground ==
    (pc = "done" /\ op = "get_accessible_variant" /\ arg.level \in {"AA", "AAA"}
        /\ 2 * get_luminance(arg.background) > LumScale)
        => /\ is_accessible(ret.val, arg.background, arg.level)
           /\ AtLeast(get_contrast_ratio("#000000", arg.background), <<11, 1>>)

\* white on white: ten greys fail and the black fallback is returned
C24_Witness ==
    /\ pc = "done" /\ op = "get_accessible_variant"
    /\ arg = [color |-> "#ffffff", background |-> "#ffffff", level |-> "AA"]
    /\ i = max_steps /\ new_color = "#7f7f7f"
    /\ ret = Return("#000000")

\* the white fallback on a background that is not light carries no such
\* guarantee: it is returned and is not accessible
C24_WhiteFallbackNotAccessible ==
    /\ pc = "done" /\ op = "get_accessible_variant" /\ arg.level \in {"AA", "AAA"}
    /\ 2 * get_luminance(arg.background) <= LumScale
    /\ i = max_steps /\ ret = Return("#ffffff")
    /\ ~is_accessible(ret.val, arg.background, arg.level)

\* C25: at a level other than AA and AAA get_accessible_variant evaluates
\* all ten candidates, none passes, and it returns the fallback, '#000000'
\* on a background of luminance above 0.5 and '#ffffff' otherwise, whatever
\* the input colour and however high its contrast.
C25_UnknownLevelFallsBack ==
    (pc = "done" /\ op = "get_accessible_variant" /\ arg.level \notin {"AA", "AAA"})
        => /\ i = max_steps
           /\ new_color \in CandidatesAt(max_steps)
           /\ ret = Return(IF 2 * get_luminance(arg.background) > LumScale
                           THEN "#000000" ELSE "#ffffff")

\* white on black, the highest contrast there is, at the level 'A': the
\* search runs ten steps and returns the white fallback
C25_Witness ==
    /\ pc = "done" /\ op = "get_accessible_variant"
    /\ arg = [color |-> "#ffffff", background |-> "#000000", level |-> "A"]
    /\ AtLeast(get_contrast_ratio(arg.color, arg.background), <<21, 1>>)
    /\ i = max_steps /\ l = LScale
    /\ ret = Return("#ffffff")

\* C26: get_accessible_variant is idempotent: called on a colour it returned,
\* with the same background and level, it returns that colour again.
C26_Idempotent ==
    (pc = "done" /\ op = "get_accessible_variant" /\ first # NoValue)
        => /\ arg.color = first.val
           /\ ret = first

\* the white fallback, not accessible on the red of the palette at AAA,
\* passed back in: ten candidates, all white, and the white fallback again
C26_Witness ==
    /\ pc = "done" /\ op = "get_accessible_variant"
    /\ first = Return("#ffffff")
    /\ arg = [color |-> "#ffffff", background |-> "#dc2626", level |-> "AAA"]
    /\ ~is_accessible(arg.color, arg.background, arg.level)
    /\ i = max_steps /\ new_color = "#ffffff"
    /\ ret = Return("#ffffff")

-----------------------------------------------------------------------------
(* Properties of the palette generator *)

\* CATEGORICAL_PALETTE cycled to a list of n colours
Cycled(n) == [k \in 1..n |-> CATEGORICAL_PALETTE[((k - 1) % 12) + 1]]

\* the scale a palette type names: what follows the prefix is its name
NamedScale ==
    [sequential_blue |-> SEQUENTIAL_SCALES.blue, sequential_green |-> SEQUENTIAL_SCALES.green,
     sequential_red |-> SEQUENTIAL_SCALES.red, sequential_purple |-> SEQUENTIAL_SCALES.purple,
     diverging_blue_red |-> DIVERGING_SCALES.blue_red,
     diverging_green_purple |-> DIVERGING_SCALES.green_purple]

\* C12: get_chart_colors(count, 'categorical') does not fail and returns
\* count entries, the i-th being CATEGORICAL_PALETTE[i mod 12]; for count =
\* 12 that is the palette itself, in order.
C12_CategoricalCycles ==
    (pc = "done" /\ op = "get_chart_colors" /\ arg.palette_type = "categorical")
        => /\ ret.kind = "return"
           /\ Len(ret.val) = arg.num_colors
           /\ \A k \in 0..(arg.num_colors - 1) :
                  ret.val[k + 1] = CATEGORICAL_PALETTE[(k % 12) + 1]
           /\ arg.num_colors = 12 => ret.val = CATEGORICAL_PALETTE

\* thirteen colours asked: the thirteenth is the first again
C12_Witness ==
    /\ pc = "done" /\ op = "get_chart_colors"
    /\ arg = [num_colors |-> 13, palette_type |-> "categorical"]
    /\ Len(ret.val) = 13
    /\ ret.val[13] = "#1e40af" /\ ret.val[12] = "#9d174d"

\* C13 as stated: for a registered scale and count <= len(scale) the i-th
\* colour is the anchor at round(i * (len(scale) - 1) / (count - 1)) for
\* count > 1, and the first anchor alone for count = 1.
C13_IndexRounded ==
    (pc = "done" /\ op = "get_chart_colors" /\ arg.palette_type \in DOMAIN NamedScale
        /\ arg.num_colors >= 1 /\ arg.num_colors <= Len(NamedScale[arg.palette_type]))
        => /\ Len(ret.val) = arg.num_colors
           /\ arg.num_colors = 1 => ret.val = <<NamedScale[arg.palette_type][1]>>
           /\ arg.num_colors > 1 =>
                  \A k \in 0..(arg.num_colors - 1) :
                      \E idx \in Nearest(<<k * (Len(NamedScale[arg.palette_type]) - 1),
                                           arg.num_colors - 1>>) :
                          ret.val[k + 1] = NamedScale[arg.palette_type][idx + 1]

\* C13 amended: the i-th colour is the anchor at the integer part (floor) of
\* i * (len(scale) - 1) / (count - 1) for count > 1, so that the first and
\* the last anchor are both included, and the first anchor alone for
\* count = 1.
C13_IndexFloored ==
    (pc = "done" /\ op = "get_chart_colors" /\ arg.palette_type \in DOMAIN NamedScale
        /\ arg.num_colors >= 1 /\ arg.num_colors <= Len(NamedScale[arg.palette_type]))
        => /\ Len(ret.val) = arg.num_colors
           /\ arg.num_colors = 1 => ret.val = <<NamedScale[arg.palette_type][1]>>
           /\ arg.num_colors > 1 =>
                  /\ \A k \in 0..(arg.num_colors - 1) :
                         ret.val[k + 1] =
                             NamedScale[arg.palette_type]
                                 [(k * (Len(NamedScale[arg.palette_type]) - 1))
                                      \div (arg.num_colors - 1) + 1]
                  /\ ret.val[1] = NamedScale[arg.palette_type][1]
                  /\ ret.val[arg.num_colors] =
                         NamedScale[arg.palette_type][Len(NamedScale[arg.palette_type])]

\* four colours of the nine blue anchors: 8/3 gives the anchor 2, where
\* rounding gives 3
C13_Witness ==
    /\ pc = "done" /\ op = "get_chart_colors"
    /\ arg = [num_colors |-> 4, palette_type |-> "sequential_blue"]
    /\ ret.val = <<"#dbeafe", "#93c5fd", "#2563eb", "#1e3a8a">>

\* C14: for every palette type that is not 'categorical' and does not name
\* a registered scale, get_chart_colors raises no error and returns the
\* list get_chart_colors(count, 'categorical') returns.
C14_UnregisteredFallsBack ==
    (pc = "done" /\ op = "get_chart_colors"
        /\ arg.palette_type \notin ({"categorical"} \cup DOMAIN NamedScale))
        => ret = Return(Cycled(arg.num_colors))

\* C15: for every scale and every n >= 2, the first colour of
\* interpolate_colors(scale, n) is the first of the scale and its n-th
\* colour is the last of the scale.
C15_InterpolationEndpoints ==
    (pc = "done" /\ op = "interpolate_colors" /\ arg.num_colors >= 2)
        => /\ ret.val[1] = arg.color_scale[1]
           /\ ret.val[arg.num_colors] = arg.color_scale[Len(arg.color_scale)]

\* eleven colours of the nine blue anchors: the second is not an anchor
C15_Witness ==
    /\ pc = "done" /\ op = "interpolate_colors"
    /\ arg = [color_scale |-> SEQUENTIAL_SCALES.blue, num_colors |-> 11]
    /\ ret.val[1] = "#dbeafe" /\ ret.val[11] = "#1e3a8a"
    /\ \A k \in 1..9 : ret.val[2] # SEQUENTIAL_SCALES.blue[k]

\* C16: for every palette type and every count >= 0 the list
\* get_chart_colors returns has exactly count entries, also when count is
\* above the length of the scale and the list is interpolated.
C16_LengthIsCount ==
    (pc = "done" /\ op = "get_chart_colors")
        => ret.kind = "return" /\ Len(ret.val) = arg.num_colors

\* a list of more colours than the scale has anchors
C16_Witness ==
    /\ pc = "done" /\ op = "get_chart_colors"
    /\ arg = [num_colors |-> 13, palette_type |-> "diverging_blue_red"]
    /\ Len(ret.val) = 13
    /\ ret.val[2] \notin {DIVERGING_SCALES.blue_red[k] : k \in 1..9}

\* C20: after any sequence of calls of the engine's functions the tables
\* CATEGORICAL_PALETTE, SEQUENTIAL_SCALES, DIVERGING_SCALES and COLOR_PALETTE
\* are what they were when the module was loaded.
C20_TablesUnchanged ==
    /\ DOMAIN tables =
           {"COLOR_PALETTE", "CATEGORICAL_PALETTE", "SEQUENTIAL_SCALES", "DIVERGING_SCALES"}
    /\ tables.CATEGORICAL_PALETTE = CATEGORICAL_PALETTE
    /\ tables.SEQUENTIAL_SCALES = SEQUENTIAL_SCALES
    /\ tables.DIVERGING_SCALES = DIVERGING_SCALES
    /\ tables.COLOR_PALETTE = COLOR_PALETTE

\* a call that asked for more categorical colours than the palette has, and
\* one that interpolated a registered scale, have returned
C20_Witness ==
    /\ pc = "done" /\ op = "get_chart_colors"
    /\ \/ arg.palette_type = "categorical" /\ Len(ret.val) = Len(CATEGORICAL_PALETTE) + 1
       \/ arg.palette_type = "sequential_red" /\ Len(ret.val) = Len(SEQUENTIAL_SCALES.red) + 1
    /\ Len(tables.CATEGORICAL_PALETTE) = 12
    /\ Len(tables.SEQUENTIAL_SCALES.red) = 9

\* a channel value v is int() of the float computed for the exact number
\* num / den, which when that number is an integer may fall just short of it
TruncationOf(v, num, den) == v * den <= num /\ num <= (v + 1) * den

\* entry k (from 0) of the list is the colour at pos = k * (len - 1) / (count - 1):
\* whole and rest are floor(pos) and the numerator of its fractional part
InterpolatedAt(scale, count, k, color) ==
    \E whole \in {(k * (Len(scale) - 1)) \div (count - 1)},
       rest \in {(k * (Len(scale) - 1)) % (count - 1)} :
        IF rest = 0
        THEN color = scale[whole + 1]
        ELSE /\ whole + 1 <= Len(scale) - 1
             /\ \E lower \in {hex_to_rgb(scale[whole + 1]).val},
                   upper \in {hex_to_rgb(scale[whole + 2]).val},
                   rgb \in {hex_to_rgb(color).val} :
                    \A c \in 1..3 :
                        TruncationOf(rgb[c],
                                     lower[c] * (count - 1) + rest * (upper[c] - lower[c]),
                                     count - 1)

\* C23: for count >= 2 entry i of interpolate_colors(scale, count) is the
\* colour at pos = i * (len(scale) - 1) / (count - 1): the anchor itself, as
\* the same string, when pos is an integer, and otherwise each channel
\* interpolated linearly between scale[floor(pos)] and scale[ceil(pos)],
\* weighted by the fractional part of pos and cut to an integer; the upper
\* index never exceeds len(scale) - 1.
C23_LinearInterpolation ==
    (pc = "done" /\ op = "interpolate_colors" /\ arg.num_colors >= 2)
        => \A k \in 0..(arg.num_colors - 1) :
               InterpolatedAt(arg.color_scale, arg.num_colors, k, ret.val[k + 1])

\* eleven colours of the nine blue anchors: entry 1 lies between the first
\* two anchors, entry 5 is the fifth anchor
C23_Witness ==
    /\ pc = "done" /\ op = "interpolate_colors"
    /\ arg = [color_scale |-> SEQUENTIAL_SCALES.blue, num_colors |-> 11]
    /\ ret.val[2] = "#c4defe"
    /\ ret.val[6] = "#3b82f6" /\ ret.val[6] = SEQUENTIAL_SCALES.blue[5]
    /\ ret.val[10] = "#1e3ea7"

-----------------------------------------------------------------------------
(* Properties of the dashboard *)

\* C27: once the start-up loop has run over charts_data the colour of every
\* chart is accessible on the chart background at AA: a colour that passed
\* is kept, one that did not is a variant get_accessible_variant returns.
C27_ChartColorsAccessible ==
    \A k \in 1..ChartCount :
        (app.at # "adjust" \/ k < app.chart)
            => /\ is_accessible(app.charts_data[k].color, CHART_THEME.background, "AA")
               /\ (app.charts_data[k].color # chart_colors[k])
                    => ~is_accessible(chart_colors[k], CHART_THEME.background, "AA")

\* the loop is over: the primary blue was kept, the green and the orange
\* were darkened
C27_Witness ==
    /\ app.at # "adjust"
    /\ app.charts_data[1].color = "#1e40af"
    /\ chart_colors[2] = "#059669" /\ app.charts_data[2].color = "#047d57"
    /\ chart_colors[5] = "#ea580c" /\ app.charts_data[5].color = "#b94509"

\* the store's data as update_filter_store builds them from the widgets
Applied ==
    [date_range |-> [start |-> app.widgets.start_date, end |-> app.widgets.end_date],
     categories |-> {<<name, app.widgets[name][1]>> :
                        name \in {key \in {"division", "region", "product_line", "market"} :
                                     app.widgets[key] # None}},
     value_range |-> app.widgets.value_range]

\* C28: the data of the filter store change only when update_filter_store
\* runs for a click on Apply, and then the date range, the categories and
\* the value range are those of the widgets; the invocation with n_clicks
\* None leaves the data as they are, and reset_filters changes the widgets
\* only.
C28_StoreFrame ==
    [][/\ (app'.store # app.store)
            => /\ app'.n_clicks.apply # app.n_clicks.apply
               /\ app'.n_clicks.apply # None
       /\ (app'.n_clicks.apply # app.n_clicks.apply /\ IsRegistered("update_filter_store"))
            => app'.store = Applied
       /\ (app'.loaded /\ ~app.loaded) => app'.store = app.store
       /\ (app'.n_clicks.reset # app.n_clicks.reset)
            => /\ app'.store = app.store
               /\ app'.n_clicks.apply = app.n_clicks.apply
               /\ IsRegistered("reset_filters")
                    => app'.widgets = [LayoutWidgets EXCEPT !.start_date = "today-100"]]_vars

\* filters were applied without a division, then Reset was clicked: the
\* widgets are back at their defaults and the store holds what was applied
C28_Witness ==
    /\ app.serving /\ app.loaded
    /\ app.n_clicks = [apply |-> Some(1), reset |-> Some(1)]
    /\ app.widgets.start_date = "today-100" /\ app.widgets.division = Some(Divisions)
    /\ app.store.date_range = [start |-> "2024-06-01", end |-> "today"]
    /\ app.store.categories = {<<"region", Regions>>, <<"product_line", ProductLines>>,
                               <<"market", Markets>>}
    /\ app.store.value_range = <<200, 800>>

\* C29: every invocation of update_charts returns figures whose traces were
\* built from its own filter data, also when invocations interleave: no
\* figure returned holds traces another invocation wrote into the figures
\* of charts.
C29_OwnTracesOnly ==
    \A t \in DOMAIN calls :
        (calls[t].pc = "done")
            => /\ calls[t].ret.kind = "return"
               /\ \A k \in 1..ChartCount :
                      calls[t].ret.val[k] = Traces(k, calls[t].filter_data)

\* an invocation has returned a figure with the traces another invocation
\* built from other filter data
C29_ForeignTraces ==
    \E t \in DOMAIN calls, u \in DOMAIN calls :
        /\ t # u
        /\ calls[t].filter_data # None /\ calls[u].filter_data # None
        /\ calls[t].filter_data # calls[u].filter_data
        /\ calls[t].pc = "done" /\ calls[t].ret.kind = "return"
        /\ \E k \in 1..ChartCount :
               calls[t].ret.val[k] = Traces(k, calls[u].filter_data)

\* C30: when app.py is run as the main program all five callbacks are
\* registered before the server started by app.run serves.
C30_CallbacksBeforeServing ==
    (app.main /\ app.serving) => app.callbacks = Callbacks

====
